---- MODULE Spec2Model ----
(***************************************************************************)
(* Provisioning server of the picture frame (pxpaper/frame).               *)
(*                                                                         *)
(* The repository holds several server programs that were deployed one     *)
(* after the other under the name server.js, together with the shell       *)
(* scripts they start.  The variable rev says which of them is running:    *)
(*   "first" : scripts/stop_ap.sh lines 39-138 (has POST /reset, starts    *)
(*             no script)                                                  *)
(*   "ap"    : unnamed/part_005 (access point, scripts setup_ap.sh and     *)
(*             stop_ap.sh)                                                 *)
(*   "ble1"  : unnamed/part_008 (bleno, kiosk launched without waiting)    *)
(*   "ble"   : server.js (bleno, stop_bluetooth.sh then launch_kiosk.sh)   *)
(* The device state (credential file, hostapd, wpa_supplicant, the BLE     *)
(* controller) outlives the node process; the process state (timers,       *)
(* child scripts, bleno handlers, GATT services) does not.                 *)
(***************************************************************************)
EXTENDS Integers, Sequences, FiniteSets, TLC

\* ------------------------------------------------------------------ bounds
MaxRequests == 2    \* requests (HTTP posts, BLE writes) per process lifetime
MaxBoots == 2       \* process starts (pm2 start) in one behaviour

\* ------------------------------------------------------------- JSON values
Revs == {"first", "ap", "ble1", "ble"}

\* sample strings over the characters " " and "a"
Strs == { <<>>, <<" ">>, <<" ", "a">> }

Undef == [t |-> "undef", s |-> <<>>]
Num == [t |-> "num", s |-> <<>>]
Str(s) == [t |-> "str", s |-> s]

\* the values a field of a JSON body can take: missing, a non-zero number,
\* or a string
Vals == {Undef, Num} \cup { Str(s) : s \in Strs }

\* a JSON object with the two fields the code looks at
Obj(ssid, password) == [kind |-> "obj", ssid |-> ssid, password |-> password]
Objects == { Obj(a, b) : a \in Vals, b \in Vals }

\* a JSON text that is no object (5, null, "x"): it has no fields
Scalar == [kind |-> "scalar", ssid |-> Undef, password |-> Undef]
\* bytes that JSON.parse rejects
NonJson == [kind |-> "nonjson", ssid |-> Undef, password |-> Undef]
\* no file at wifiConfigPath
Absent == [kind |-> "absent", ssid |-> Undef, password |-> Undef]

\* the request bodies and payloads tried: one field is a good string, the
\* other is anything
Good == Str(<<" ", "a">>)
Samples == { Obj(Good, v) : v \in Vals } \cup { Obj(v, Good) : v \in Vals }
HttpBodies == Samples
BlePayloads == Samples \cup {Scalar, NonJson}

\* ---------------------------------------------------------- JS primitives
RECURSIVE TrimLeft(_)
TrimLeft(s) == IF s = <<>> THEN s
               ELSE IF Head(s) = " " THEN TrimLeft(Tail(s)) ELSE s

RECURSIVE TrimRight(_)
TrimRight(s) == IF s = <<>> THEN s
                ELSE IF s[Len(s)] = " " THEN TrimRight(SubSeq(s, 1, Len(s) - 1))
                ELSE s

\* String.prototype.trim
trim(s) == TrimRight(TrimLeft(s))

\* JS truthiness of a field value: undefined and "" are falsy
Truthy(v) == \/ v.t = "num"
             \/ v.t = "str" /\ v.s # <<>>


\* ------------------------------------------------------------------ state
VARIABLES
  rev,          \* which server program is deployed
  boots,        \* process starts so far
  booted,       \* the server.listen callback has run
  branch,       \* what that callback found: "client" (credentials) or "setup"
  file,         \* content of config/wifi-config.json
  apActive,     \* hostapd is running (access point broadcast)
  clientActive, \* wpa_supplicant runs with the client configuration
  advertising,  \* the BLE controller advertises
  kiosk,        \* chromium is running
  bleState,     \* last state bleno reported
  handlers,     \* the bleno stateChange/advertisingStart handlers exist
  servicesSet,  \* bleno.setServices([provisioningService]) was called
  connected,    \* a BLE central is connected
  enableIssued, \* this process has issued an EnableBroadcast action
  timers,       \* pending setTimeout callbacks, by request number
  procs,        \* child scripts started by exec and not yet finished
  nreq,         \* requests this process has handled
  log,          \* per sequence, the commands issued and completed, in order
  lastResp,     \* answer to the last request
  mode,         \* provisioning mode the server has announced
  writing       \* record fs.writeFileSync has yet to write into the file it
                \* has truncated; Idle when no write is under way

vars == <<rev, boots, booted, branch, file, apActive, clientActive, advertising, kiosk,
          bleState, handlers, servicesSet, connected, enableIssued, timers,
          procs, nreq, log, lastResp, mode, writing>>

device == <<file, apActive, clientActive, advertising, kiosk>>
bleVars == <<bleState, handlers, servicesSet, connected>>

BleRevs == {"ble1", "ble"}

\* log[0] is the sequence the boot started, log[n] the one request n started.
\* An entry is a command with "issue", "ok" or "fail".
Seqs == 0..MaxRequests
Ev(cmd, ev) == [cmd |-> cmd, ev |-> ev]
Logged(l, sub, evs) == [l EXCEPT ![sub] = l[sub] \o evs]

\* the external action (spec section 4.3) a command performs
ActionOf(cmd) ==
  CASE cmd \in {"stopAdvertising", "stop_bluetooth", "stop_hostapd"} -> "DisableBroadcast"
    [] cmd = "apply_wpa" -> "ApplyClientConfig"
    [] cmd = "launch_kiosk" -> "LaunchDisplay"

\* wifiCredentialsExist: file presence in the early programs, a check of
\* both fields in the later ones.  A TypeError (trim of a number) and a
\* SyntaxError of JSON.parse are caught and give false.
wifiCredentialsExist(r, f) ==
  IF r \in {"first", "ap"}
  THEN f.kind # "absent"
  ELSE /\ f.kind \in {"obj", "scalar"}
       /\ Truthy(f.ssid)
       /\ Truthy(f.password)
       /\ f.ssid.t = "str"
       /\ f.password.t = "str"
       /\ trim(f.ssid.s) # <<>>
       /\ trim(f.password.s) # <<>>

\* runScript(cmd, callback): exec starts the script; cb says whether the
\* callback launches the kiosk when the script reports no error
runScript(sub, cmd, cb) == [sub |-> sub, script |-> cmd, step |-> 1, cb |-> cb]

\* fs.writeFileSync(wifiConfigPath, text): "ok" writes the text, "openfail"
\* throws before the file is touched, "writefail" throws after the file was
\* truncated
IoOutcomes == {"ok", "openfail", "writefail"}
writeFileSync(f, new, io) ==
  CASE io = "ok" -> new
    [] io = "openfail" -> f
    [] io = "writefail" -> NonJson

\* no fs.writeFileSync call is between its open(O_TRUNC) and its write
Idle == [kind |-> "idle", ssid |-> Undef, password |-> Undef]

Init ==
  /\ rev \in Revs
  /\ boots = 1
  /\ booted = FALSE
  /\ branch = "none"
  /\ file = Absent
  /\ apActive = FALSE
  /\ clientActive = FALSE
  /\ advertising = FALSE
  /\ kiosk = FALSE
  /\ bleState = "unknown"
  /\ handlers = FALSE
  /\ servicesSet = FALSE
  /\ connected = FALSE
  /\ enableIssued = FALSE
  /\ timers = {}
  /\ procs = {}
  /\ nreq = 0
  /\ log = [n \in Seqs |-> <<>>]
  /\ lastResp = "none"
  /\ mode = "Start"
  /\ writing = Idle


\* ------------------------------------------------- server.listen callback
\* first program: the callback only logs; GET / tells the two modes apart
\* by wifiCredentialsExist()
listenFirst ==
  /\ rev = "first"
  /\ mode' = IF wifiCredentialsExist(rev, file) THEN "Provisioned" ELSE "Unprovisioned"
  /\ UNCHANGED <<device, bleVars, enableIssued, procs, log>>

\* listenAp with the else branch that forgets setup_ap.sh
listenAp_NoSetup ==
  /\ rev = "ap"
  /\ IF wifiCredentialsExist(rev, file)
     THEN /\ mode' = "Provisioned"
          /\ procs' = procs \cup {runScript(0, "stop_ap", TRUE)}
          /\ log' = Logged(log, 0, <<Ev("stop_hostapd", "issue")>>)
     ELSE /\ mode' = "Unprovisioned"
          /\ UNCHANGED <<procs, log>>
  /\ UNCHANGED <<device, bleVars, enableIssued>>

\* part_005: stop_ap.sh then launch_kiosk.sh, or setup_ap.sh
listenAp ==
  /\ rev = "ap"
  /\ IF wifiCredentialsExist(rev, file)
     THEN /\ mode' = "Provisioned"
          /\ procs' = procs \cup {runScript(0, "stop_ap", TRUE)}
          /\ log' = Logged(log, 0, <<Ev("stop_hostapd", "issue")>>)
          /\ UNCHANGED enableIssued
     ELSE /\ mode' = "Unprovisioned"
          /\ procs' = procs \cup {runScript(0, "setup_ap", FALSE)}
          /\ enableIssued' = TRUE
          /\ UNCHANGED log
  /\ UNCHANGED <<device, bleVars>>

\* part_008: stopAdvertising and launch_kiosk.sh at once, or the bleno
\* handlers
listenBle1 ==
  /\ rev = "ble1"
  /\ IF wifiCredentialsExist(rev, file)
     THEN /\ mode' = "Provisioned"
          /\ advertising' = FALSE
          /\ procs' = procs \cup {runScript(0, "launch_kiosk", FALSE)}
          /\ log' = Logged(log, 0, <<Ev("stopAdvertising", "issue"),
                              Ev("launch_kiosk", "issue")>>)
          /\ UNCHANGED handlers
     ELSE /\ mode' = "Unprovisioned"
          /\ handlers' = TRUE
          /\ UNCHANGED <<advertising, procs, log>>
  /\ UNCHANGED <<file, apActive, clientActive, kiosk, bleState, servicesSet,
                 connected, enableIssued>>

\* listenBle registering the bleno handlers before the test instead of in
\* its else branch
listenBle_AlwaysHandlers ==
  /\ rev = "ble"
  /\ handlers' = TRUE
  /\ IF wifiCredentialsExist(rev, file)
     THEN /\ mode' = "Provisioned"
          /\ advertising' = FALSE
          /\ procs' = procs \cup {runScript(0, "stop_bluetooth", TRUE)}
          /\ log' = Logged(log, 0, <<Ev("stopAdvertising", "issue"),
                                      Ev("stop_bluetooth", "issue")>>)
     ELSE /\ mode' = "Unprovisioned"
          /\ UNCHANGED <<advertising, procs, log>>
  /\ UNCHANGED <<file, apActive, clientActive, kiosk, bleState, servicesSet,
                 connected, enableIssued>>

\* server.js: stopAdvertising, stop_bluetooth.sh and then launch_kiosk.sh,
\* or the bleno handlers
listenBle ==
  /\ rev = "ble"
  /\ IF wifiCredentialsExist(rev, file)
     THEN /\ mode' = "Provisioned"
          /\ advertising' = FALSE
          /\ procs' = procs \cup {runScript(0, "stop_bluetooth", TRUE)}
          /\ log' = Logged(log, 0, <<Ev("stopAdvertising", "issue"),
                              Ev("stop_bluetooth", "issue")>>)
          /\ UNCHANGED handlers
     ELSE /\ mode' = "Unprovisioned"
          /\ handlers' = TRUE
          /\ UNCHANGED <<advertising, procs, log>>
  /\ UNCHANGED <<file, apActive, clientActive, kiosk, bleState, servicesSet,
                 connected, enableIssued>>

listen == listenFirst \/ listenAp \/ listenBle1 \/ listenBle

Boot ==
  /\ ~booted
  /\ booted' = TRUE
  /\ branch' = IF wifiCredentialsExist(rev, file) THEN "client" ELSE "setup"
  /\ listen
  /\ writing = Idle
  /\ UNCHANGED <<rev, boots, timers, nreq, lastResp, writing>>


\* --------------------------------------------------------- POST /setup/wifi
\* the delayed callback of setTimeout(..., 5000) is kept in timers; the first
\* program schedules nothing
\* variant: setTimeout comes before writeFileSync, so the sequence is
\* scheduled although the write throws
postSetupWifi_TimerFirst(body, io) ==
  /\ booted
  /\ nreq < MaxRequests
  /\ nreq' = nreq + 1
  /\ IF ~Truthy(body.ssid) \/ ~Truthy(body.password)
     THEN /\ lastResp' = "400"
          /\ UNCHANGED <<file, timers, mode>>
     ELSE /\ file' = writeFileSync(file, Obj(body.ssid, body.password), io)
          /\ lastResp' = IF io = "ok" THEN "200" ELSE "500"
          /\ timers' = IF rev = "first" THEN timers ELSE timers \cup {nreq + 1}
          /\ mode' = "Transitioning"
  /\ UNCHANGED <<rev, boots, booted, branch, apActive, clientActive, advertising, kiosk,
                 bleVars, enableIssued, procs, log>>

\* variant: no setTimeout; the handler starts the first script itself,
\* before res.send
postSetupWifi_NoDelay(body, io) ==
  /\ booted
  /\ nreq < MaxRequests
  /\ nreq' = nreq + 1
  /\ IF ~Truthy(body.ssid) \/ ~Truthy(body.password)
     THEN /\ lastResp' = "400"
          /\ UNCHANGED <<file, procs, log, mode>>
     ELSE IF io # "ok"
     THEN /\ file' = writeFileSync(file, Obj(body.ssid, body.password), io)
          /\ lastResp' = "500"
          /\ UNCHANGED <<procs, log, mode>>
     ELSE /\ file' = writeFileSync(file, Obj(body.ssid, body.password), io)
          /\ lastResp' = "200"
          /\ IF rev = "first"
             THEN UNCHANGED <<procs, log>>
             ELSE /\ procs' = procs \cup {runScript(nreq + 1, "launch_kiosk", FALSE)}
                  /\ log' = Logged(log, nreq + 1, <<Ev("launch_kiosk", "issue")>>)
          /\ mode' = "Transitioning"
  /\ UNCHANGED <<rev, boots, booted, branch, apActive, clientActive, advertising, kiosk,
                 bleVars, enableIssued, timers>>

\* variant: the handler tests "!ssid" alone
postSetupWifi_SsidOnly(body, io) ==
  /\ booted
  /\ nreq < MaxRequests
  /\ nreq' = nreq + 1
  /\ IF ~Truthy(body.ssid)
     THEN /\ lastResp' = "400"
          /\ UNCHANGED <<file, timers, mode>>
     ELSE IF io # "ok"
     THEN /\ file' = writeFileSync(file, Obj(body.ssid, body.password), io)
          /\ lastResp' = "500"
          /\ UNCHANGED <<timers, mode>>
     ELSE /\ file' = writeFileSync(file, Obj(body.ssid, body.password), io)
          /\ lastResp' = "200"
          /\ timers' = IF rev = "first" THEN timers ELSE timers \cup {nreq + 1}
          /\ mode' = "Transitioning"
  /\ UNCHANGED <<rev, boots, booted, branch, apActive, clientActive, advertising, kiosk,
                 bleVars, enableIssued, procs, log>>

postSetupWifi(body, io) ==
  /\ booted
  /\ nreq < MaxRequests
  /\ nreq' = nreq + 1
  /\ IF ~Truthy(body.ssid) \/ ~Truthy(body.password)
     THEN /\ lastResp' = "400"
          /\ UNCHANGED <<file, timers, mode>>
     ELSE IF io # "ok"
     THEN \* writeFileSync throws: express answers 500, nothing is scheduled
          /\ file' = writeFileSync(file, Obj(body.ssid, body.password), io)
          /\ lastResp' = "500"
          /\ UNCHANGED <<timers, mode>>
     ELSE /\ file' = writeFileSync(file, Obj(body.ssid, body.password), io)
          /\ lastResp' = "200"
          /\ timers' = IF rev = "first" THEN timers ELSE timers \cup {nreq + 1}
          /\ mode' = "Transitioning"
  /\ UNCHANGED <<rev, boots, booted, branch, apActive, clientActive, advertising, kiosk,
                 bleVars, enableIssued, procs, log>>

\* fs.writeFileSync writes the file in place: it opens it with O_TRUNC and
\* then writes the text.  Node runs nothing else in between, a child script
\* does.  stop_ap.sh is the one script that reads the file, so the model
\* shows the truncated file only while a stop_ap.sh runs; the handler goes
\* on (HttpSubmit) once the script has moved or not.
saveOpen(body) ==
  /\ writing = Idle
  /\ booted
  /\ nreq < MaxRequests
  /\ Truthy(body.ssid) /\ Truthy(body.password)
  /\ \E p \in procs : p.script = "stop_ap"
  /\ file' = NonJson
  /\ writing' = Obj(body.ssid, body.password)
  /\ UNCHANGED <<rev, boots, booted, branch, apActive, clientActive, advertising, kiosk,
                 bleVars, enableIssued, timers, procs, nreq, log, lastResp, mode>>

HttpOpen == \E body \in HttpBodies : saveOpen(body)

HttpSubmit ==
  \E body \in HttpBodies, io \in IoOutcomes :
    /\ \/ writing = Idle
       \/ writing = Obj(body.ssid, body.password) /\ io # "openfail"
    /\ postSetupWifi(body, io)
    /\ writing' = Idle

\* the setTimeout callback of an accepted POST
timerCallback(n) ==
  /\ n \in timers
  /\ timers' = timers \ {n}
  /\ CASE rev = "ap" ->
            /\ procs' = procs \cup {runScript(n, "stop_ap", TRUE)}
            /\ log' = Logged(log, n, <<Ev("stop_hostapd", "issue")>>)
            /\ UNCHANGED advertising
       [] rev = "ble1" ->
            /\ advertising' = FALSE
            /\ procs' = procs \cup {runScript(n, "launch_kiosk", FALSE)}
            /\ log' = Logged(log, n, <<Ev("stopAdvertising", "issue"),
                                Ev("launch_kiosk", "issue")>>)
       [] rev = "ble" ->
            /\ procs' = procs \cup {runScript(n, "stop_bluetooth", TRUE)}
            /\ log' = Logged(log, n, <<Ev("stop_bluetooth", "issue")>>)
            /\ UNCHANGED advertising
  /\ UNCHANGED <<rev, boots, booted, branch, file, apActive, clientActive, kiosk,
                 bleVars, enableIssued, nreq, lastResp, mode>>

TimerFire == writing = Idle /\ UNCHANGED writing /\ \E n \in timers : timerCallback(n)

\* ------------------------------------ CredentialsCharacteristic.onWriteRequest
\* everything is inside one try block: a payload JSON.parse rejects and a
\* failing writeFileSync both end in RESULT_UNLIKELY_ERROR
\* variant: bleno.stopAdvertising() comes before JSON.parse
onWriteRequest_StopFirst(payload, io) ==
  /\ rev \in BleRevs
  /\ booted
  /\ servicesSet
  /\ connected
  /\ nreq < MaxRequests
  /\ nreq' = nreq + 1
  /\ advertising' = FALSE
  /\ IF payload.kind = "nonjson"
     THEN /\ lastResp' = "RESULT_UNLIKELY_ERROR"
          /\ UNCHANGED <<file, procs, log, mode>>
     ELSE IF io # "ok"
     THEN /\ file' = writeFileSync(file, payload, io)
          /\ lastResp' = "RESULT_UNLIKELY_ERROR"
          /\ UNCHANGED <<procs, log, mode>>
     ELSE /\ file' = writeFileSync(file, payload, io)
          /\ IF rev = "ble1"
             THEN /\ procs' = procs \cup {runScript(nreq + 1, "launch_kiosk", FALSE)}
                  /\ log' = Logged(log, nreq + 1, <<Ev("stopAdvertising", "issue"),
                                      Ev("launch_kiosk", "issue")>>)
             ELSE /\ procs' = procs \cup {runScript(nreq + 1, "stop_bluetooth", TRUE)}
                  /\ log' = Logged(log, nreq + 1, <<Ev("stopAdvertising", "issue"),
                                      Ev("stop_bluetooth", "issue")>>)
          /\ lastResp' = "RESULT_SUCCESS"
          /\ mode' = "Transitioning"
  /\ UNCHANGED <<rev, boots, booted, branch, apActive, clientActive, kiosk, bleVars,
                 enableIssued, timers>>

onWriteRequest(payload, io) ==
  /\ rev \in BleRevs
  /\ booted
  /\ servicesSet
  /\ connected
  /\ nreq < MaxRequests
  /\ nreq' = nreq + 1
  /\ IF payload.kind = "nonjson"
     THEN /\ lastResp' = "RESULT_UNLIKELY_ERROR"
          /\ UNCHANGED <<file, advertising, procs, log, mode>>
     ELSE IF io # "ok"
     THEN /\ file' = writeFileSync(file, payload, io)
          /\ lastResp' = "RESULT_UNLIKELY_ERROR"
          /\ UNCHANGED <<advertising, procs, log, mode>>
     ELSE /\ file' = writeFileSync(file, payload, io)
          /\ advertising' = FALSE
          /\ IF rev = "ble1"
             THEN /\ procs' = procs \cup {runScript(nreq + 1, "launch_kiosk", FALSE)}
                  /\ log' = Logged(log, nreq + 1, <<Ev("stopAdvertising", "issue"),
                                      Ev("launch_kiosk", "issue")>>)
             ELSE /\ procs' = procs \cup {runScript(nreq + 1, "stop_bluetooth", TRUE)}
                  /\ log' = Logged(log, nreq + 1, <<Ev("stopAdvertising", "issue"),
                                      Ev("stop_bluetooth", "issue")>>)
          /\ lastResp' = "RESULT_SUCCESS"
          /\ mode' = "Transitioning"
  /\ UNCHANGED <<rev, boots, booted, branch, apActive, clientActive, kiosk, bleVars,
                 enableIssued, timers>>

BleWrite ==
  /\ writing = Idle
  /\ UNCHANGED writing
  /\ \E payload \in BlePayloads, io \in IoOutcomes : onWriteRequest(payload, io)


\* ---------------------------------------------------------------- scripts
\* Each command of a script may fail; a script goes on after a failed
\* command (no "set -e"), and its exit status is that of its last command
\* unless it calls exit.  dnsmasq has no state in this model.

\* scripts/setup_ap.sh: stop wpa_supplicant (step 1), start hostapd (step 2);
\* runScript was given no callback
setup_ap(p, ok) ==
  /\ p.script = "setup_ap"
  /\ IF p.step = 1
     THEN /\ clientActive' = IF ok THEN FALSE ELSE clientActive
          /\ procs' = (procs \ {p}) \cup {[p EXCEPT !.step = 2]}
          /\ UNCHANGED apActive
     ELSE /\ apActive' = IF ok THEN TRUE ELSE apActive
          /\ procs' = procs \ {p}
          /\ UNCHANGED clientActive
  /\ UNCHANGED <<rev, boots, booted, branch, file, advertising, kiosk, bleVars,
                 enableIssued, timers, nreq, log, lastResp, mode>>

\* stop_ap.sh (part_004): stop hostapd (step 1); then exit 1 if the file is
\* missing, else write wpa_supplicant.conf and reconfigure wlan0 (step 2).
\* The last command is an echo: the exit status is 0 whenever the file is
\* there.  The exec callback starts launch_kiosk.sh when the status is 0.
stop_ap(p, ok) ==
  /\ p.script = "stop_ap"
  /\ IF p.step = 1
     THEN /\ apActive' = IF ok THEN FALSE ELSE apActive
          /\ procs' = (procs \ {p}) \cup {[p EXCEPT !.step = 2]}
          /\ log' = Logged(log, p.sub, <<Ev("stop_hostapd", IF ok THEN "ok" ELSE "fail"),
                              Ev("apply_wpa", "issue")>>)
          /\ UNCHANGED clientActive
     ELSE IF file.kind = "absent"
     THEN /\ procs' = procs \ {p}
          /\ log' = Logged(log, p.sub, <<Ev("apply_wpa", "fail")>>)
          /\ UNCHANGED <<apActive, clientActive>>
     ELSE /\ clientActive' = IF ok THEN TRUE ELSE clientActive
          /\ procs' = (procs \ {p}) \cup {runScript(p.sub, "launch_kiosk", FALSE)}
          /\ log' = Logged(log, p.sub, <<Ev("apply_wpa", IF ok THEN "ok" ELSE "fail"),
                              Ev("launch_kiosk", "issue")>>)
          /\ UNCHANGED apActive
  /\ UNCHANGED <<rev, boots, booted, branch, file, advertising, kiosk, bleVars,
                 enableIssued, timers, nreq, lastResp, mode>>

\* what a script printed to stdout and stderr: nothing, or some text
Outs == {"", "text"}

\* variant: the callback of runScript starts launch_kiosk.sh only when the
\* script also printed nothing to stderr
stop_bluetooth_ReadsStderr(p, ok, out) ==
  /\ p.script = "stop_bluetooth"
  /\ IF ok /\ out = ""
     THEN /\ procs' = (procs \ {p}) \cup {runScript(p.sub, "launch_kiosk", FALSE)}
          /\ log' = Logged(log, p.sub, <<Ev("stop_bluetooth", "ok"),
                              Ev("launch_kiosk", "issue")>>)
     ELSE /\ procs' = procs \ {p}
          /\ log' = Logged(log, p.sub, <<Ev("stop_bluetooth", IF ok THEN "ok" ELSE "fail")>>)
  /\ UNCHANGED <<rev, boots, booted, branch, device, bleVars, enableIssued, timers,
                 nreq, lastResp, mode>>

\* scripts/stop_bluetooth.sh: bluetoothctl turns discoverable, pairable and
\* the agent off; it does not touch what bleno advertises.  ok = FALSE: exec
\* reports an error.  runScript prints out (stdout, stderr) to the console
\* and passes the error alone to the callback, which starts launch_kiosk.sh
\* when there is none.
stop_bluetooth(p, ok, out) ==
  /\ p.script = "stop_bluetooth"
  /\ IF ok
     THEN /\ procs' = (procs \ {p}) \cup {runScript(p.sub, "launch_kiosk", FALSE)}
          /\ log' = Logged(log, p.sub, <<Ev("stop_bluetooth", "ok"),
                              Ev("launch_kiosk", "issue")>>)
     ELSE /\ procs' = procs \ {p}
          /\ log' = Logged(log, p.sub, <<Ev("stop_bluetooth", "fail")>>)
  /\ UNCHANGED <<rev, boots, booted, branch, device, bleVars, enableIssued, timers,
                 nreq, lastResp, mode>>

\* launch_kiosk.sh: chromium starts (the display is launched) or fails to
launch_kiosk(p, ok) ==
  /\ p.script = "launch_kiosk"
  /\ procs' = procs \ {p}
  /\ kiosk' = IF ok THEN TRUE ELSE kiosk
  /\ mode' = IF ok THEN "Provisioned" ELSE mode
  /\ log' = Logged(log, p.sub, <<Ev("launch_kiosk", IF ok THEN "ok" ELSE "fail")>>)
  /\ UNCHANGED <<rev, boots, booted, branch, file, apActive, clientActive, advertising,
                 bleVars, enableIssued, timers, nreq, lastResp>>

SetupApStep ==
  writing = Idle /\ UNCHANGED writing /\ \E p \in procs, ok \in BOOLEAN : setup_ap(p, ok)
\* stop_ap.sh runs beside the server, also while the server writes the file
StopApStep == UNCHANGED writing /\ \E p \in procs, ok \in BOOLEAN : stop_ap(p, ok)
StopBluetoothDone ==
  writing = Idle /\ UNCHANGED writing /\ \E p \in procs, ok \in BOOLEAN, out \in Outs : stop_bluetooth(p, ok, out)
LaunchKioskDone ==
  writing = Idle /\ UNCHANGED writing /\ \E p \in procs, ok \in BOOLEAN : launch_kiosk(p, ok)

\* ------------------------------------------------------------------ bleno
\* bleno reports an adapter state.  The handler of server.listen's else
\* branch starts advertising on poweredOn (the advertisingStart handler then
\* sets the services) and stops it on any other state.
stateChange(state, ok) ==
  /\ rev \in BleRevs
  /\ state # bleState
  /\ bleState' = state
  /\ connected' = IF state = "poweredOn" THEN connected ELSE FALSE
  /\ IF ~handlers
     THEN UNCHANGED <<advertising, servicesSet, enableIssued>>
     ELSE IF state = "poweredOn"
     THEN /\ enableIssued' = TRUE
          /\ advertising' = IF ok THEN TRUE ELSE advertising
          /\ servicesSet' = IF ok THEN TRUE ELSE servicesSet
     ELSE /\ advertising' = FALSE
          /\ UNCHANGED <<servicesSet, enableIssued>>
  /\ UNCHANGED <<rev, boots, booted, branch, file, apActive, clientActive, kiosk,
                 handlers, timers, procs, nreq, log, lastResp, mode>>

BleStateChange ==
  /\ writing = Idle
  /\ UNCHANGED writing
  /\ \E state \in {"poweredOn", "poweredOff"}, ok \in BOOLEAN : stateChange(state, ok)

\* a central connects to the advertising peripheral, or goes away
BleConnect ==
  /\ rev \in BleRevs
  /\ advertising
  /\ ~connected
  /\ connected' = TRUE
  /\ UNCHANGED <<rev, boots, booted, branch, device, bleState, handlers, servicesSet,
                 enableIssued, timers, procs, nreq, log, lastResp, mode, writing>>

BleDisconnect ==
  /\ connected
  /\ connected' = FALSE
  /\ UNCHANGED <<rev, boots, booted, branch, device, bleState, handlers, servicesSet,
                 enableIssued, timers, procs, nreq, log, lastResp, mode, writing>>

\* -------------------------------------------------------------- POST /reset
\* only the first program has the route; the later ones answer 404
\* variant: fs.unlinkSync is called without the wifiCredentialsExist() test,
\* so it throws when there is no file and express answers 500
postReset_NoGuard ==
  /\ booted
  /\ writing = Idle
  /\ nreq < MaxRequests
  /\ nreq' = nreq + 1
  /\ IF rev = "first"
     THEN /\ file' = Absent
          /\ lastResp' = IF file = Absent THEN "500" ELSE "reset_success"
          /\ mode' = IF file = Absent THEN mode ELSE "Unprovisioned"
     ELSE /\ lastResp' = "404"
          /\ UNCHANGED <<file, mode>>
  /\ UNCHANGED <<rev, boots, booted, branch, apActive, clientActive, advertising, kiosk,
                 bleVars, enableIssued, timers, procs, log, writing>>

postReset ==
  /\ booted
  /\ writing = Idle
  /\ nreq < MaxRequests
  /\ nreq' = nreq + 1
  /\ IF rev = "first"
     THEN /\ file' = IF wifiCredentialsExist(rev, file) THEN Absent ELSE file
          /\ lastResp' = "reset_success"
          /\ mode' = "Unprovisioned"
     ELSE /\ lastResp' = "404"
          /\ UNCHANGED <<file, mode>>
  /\ UNCHANGED <<rev, boots, booted, branch, apActive, clientActive, advertising, kiosk,
                 bleVars, enableIssued, timers, procs, log, writing>>

\* --------------------------------------------------- update.sh, git clean
\* update.sh runs "git clean -fd" in the directory of the server while the
\* server is up: config/wifi-config.json is written by the server, and git
\* removes it when it is neither tracked nor ignored
gitClean ==
  /\ writing = Idle
  /\ file.kind # "absent"
  /\ file' = Absent
  /\ UNCHANGED <<rev, boots, booted, branch, apActive, clientActive, advertising, kiosk,
                 bleVars, enableIssued, timers, procs, nreq, log, lastResp, mode, writing>>

\* ------------------------------------------------------ pm2 stop, pm2 start
\* update.sh restarts the process: timers, child scripts, the kiosk, bleno
\* handlers and GATT services go with it; the file and the network services
\* stay.  The controller may or may not keep advertising.
Restart ==
  /\ boots < MaxBoots
  /\ boots' = boots + 1
  /\ booted' = FALSE
  /\ branch' = "none"
  /\ timers' = {}
  /\ procs' = {}
  /\ kiosk' = FALSE
  /\ advertising' \in {advertising, FALSE}
  /\ bleState' = "unknown"
  /\ handlers' = FALSE
  /\ servicesSet' = FALSE
  /\ connected' = FALSE
  /\ enableIssued' = FALSE
  /\ nreq' = 0
  /\ log' = [n \in Seqs |-> <<>>]
  /\ lastResp' = "none"
  /\ mode' = "Start"
  /\ writing' = Idle
  /\ UNCHANGED <<rev, file, apActive, clientActive>>

Next ==
  \/ Boot
  \/ HttpOpen
  \/ HttpSubmit
  \/ TimerFire
  \/ BleWrite
  \/ SetupApStep
  \/ StopApStep
  \/ StopBluetoothDone
  \/ LaunchKioskDone
  \/ BleStateChange
  \/ BleConnect
  \/ BleDisconnect
  \/ postReset
  \/ gitClean
  \/ Restart

Spec == Init /\ [][Next]_vars

\* What node itself runs is fair: the listen callback runs once the server
\* listens, and a timer that is due fires.  Requests, bleno events and
\* restarts come from outside, and a child script may never end: exec is
\* called without a timeout, so nothing makes a script step happen.
FairSpec == Spec /\ WF_vars(Boot) /\ WF_vars(TimerFire)

TypeOK ==
  /\ rev \in Revs
  /\ boots \in 1..MaxBoots
  /\ branch \in {"none", "client", "setup"}
  /\ file \in Objects \cup {Scalar, NonJson, Absent}
  /\ log \in [Seqs -> Seq([cmd : STRING, ev : {"issue", "ok", "fail"}])]
  /\ nreq \in 0..MaxRequests
  /\ timers \subseteq 1..MaxRequests
  /\ mode \in {"Start", "Unprovisioned", "Transitioning", "Provisioned"}
  /\ writing \in Objects \cup {Idle}


\* ================================================================ properties
\* a field the spec calls empty: missing, or a string that trims to ""
EmptyField(v) == v.t = "undef" \/ (v.t = "str" /\ trim(v.s) = <<>>)

\* spec section 3: both fields are strings that are non-empty after trimming
ValidPair(o) ==
  /\ o.kind = "obj"
  /\ o.ssid.t = "str" /\ trim(o.ssid.s) # <<>>
  /\ o.password.t = "str" /\ trim(o.password.s) # <<>>

\* the sequence of request n is scheduled or running
Active(n) == n \in timers \/ \E p \in procs : p.sub = n

Requests == 1..MaxRequests

\* the spec actions sequence n has issued, in order
IssuedOf(l) ==
  LET sel == SelectSeq(l, LAMBDA e : e.ev = "issue")
  IN [i \in 1..Len(sel) |-> ActionOf(sel[i].cmd)]

InOrder3(s, a, b, c) ==
  \E i, j, k \in 1..Len(s) : i < j /\ j < k /\ s[i] = a /\ s[j] = b /\ s[k] = c

Completion(e) == e.ev \in {"ok", "fail"}

\* a valid submission handled by either intake, with a working file system
Submitted(b) == postSetupWifi(b, "ok") \/ onWriteRequest(b, "ok")

\* C1: in server.js, of two valid submissions in immediate succession (the
\* second comes while the sequence of the first is still scheduled or
\* running) only the first starts a mode-switch sequence: the second
\* schedules no timer, starts no script and issues no action.
C1_AtMostOneWinner ==
  [][ \A b \in Samples :
        ( /\ rev = "ble"
          /\ ValidPair(b)
          /\ ValidPair(file)
          /\ \E n \in Requests : Active(n)
          /\ Submitted(b) )
        => (timers' = timers /\ procs' = procs /\ log' = log) ]_vars

\* C2: the broadcast (access point or BLE advertisement) and the client
\* network are never active together.
C2_ExclusivePersonality == ~((apActive \/ advertising) /\ clientActive)

\* C3: in the sequence of every accepted submission, ApplyClientConfig is
\* issued right after a DisableBroadcast command has reported completion, and
\* LaunchDisplay is issued right after the preceding command has reported
\* completion.
C3_OrderedSequence ==
  \A n \in Requests : \A i \in DOMAIN log[n] :
    /\ (log[n][i] = Ev("apply_wpa", "issue"))
         => (i > 1 /\ Completion(log[n][i - 1])
                   /\ ActionOf(log[n][i - 1].cmd) = "DisableBroadcast")
    /\ (log[n][i] = Ev("launch_kiosk", "issue"))
         => (i > 1 /\ Completion(log[n][i - 1]))

\* C4: in server.js, a submission in which ssid or password is missing,
\* empty or only whitespace never writes the record, and is answered with a
\* client error (HTTP 400, or the error result of the characteristic).
C4_InvalidRejected ==
  [][ \A b \in Samples :
        (rev = "ble" /\ (EmptyField(b.ssid) \/ EmptyField(b.password)))
        => /\ postSetupWifi(b, "ok") => (file' = file /\ lastResp' = "400")
           /\ onWriteRequest(b, "ok")
                => (file' = file /\ lastResp' = "RESULT_UNLIKELY_ERROR") ]_vars

\* C5: in server.js, a valid submission that arrives in mode Transitioning
\* or Provisioned changes neither the mode nor the record nor the issued
\* actions.
C5_SecondSubmissionNoOp ==
  [][ \A b \in Samples :
        ( /\ rev = "ble"
          /\ ValidPair(b)
          /\ mode \in {"Transitioning", "Provisioned"}
          /\ Submitted(b) )
        => ( /\ mode' = mode
             /\ file' = file
             /\ log' = log
             /\ timers' = timers
             /\ procs' = procs ) ]_vars

\* C6: in server.js, once the sequence of a valid submission accepted in
\* Unprovisioned mode has ended with every command successful, it has issued
\* DisableBroadcast, ApplyClientConfig and LaunchDisplay in that order, the
\* record is saved and the mode is Provisioned.
C6_FullSequence ==
  ( /\ rev = "ble"
    /\ branch = "setup"
    /\ nreq = 1
    /\ lastResp \in {"200", "RESULT_SUCCESS"}
    /\ ValidPair(file)
    /\ ~Active(1)
    /\ \A i \in DOMAIN log[1] : log[1][i].ev # "fail" )
  => ( /\ InOrder3(IssuedOf(log[1]), "DisableBroadcast", "ApplyClientConfig",
                   "LaunchDisplay")
       /\ mode = "Provisioned" )

\* the POST /setup/wifi route answers requests
HttpArmed == booted
\* the credentials characteristic answers writes
BleArmed == booted /\ rev \in BleRevs /\ servicesSet /\ connected

\* C7: in server.js, the HTTP intake and the BLE intake never accept
\* submissions at the same time.
C7_OneIntakeArmed == ~(rev = "ble" /\ HttpArmed /\ BleArmed)

\* C8: a boot that finds a valid record takes the client branch, announces
\* mode Provisioned, and its process never issues EnableBroadcast: it starts
\* no setup_ap.sh and registers no handler that would start advertising.
C8_BootProvisioned ==
  /\ [][ (Boot /\ ValidPair(file))
           => (branch' = "client" /\ mode' = "Provisioned") ]_vars
  /\ [](branch = "client"
          => ( /\ ~enableIssued
               /\ ~handlers
               /\ \A p \in procs : p.script # "setup_ap" ))

\* a process booted from a valid record by server.js has launched the kiosk
C8_Witness ==
  /\ rev = "ble"
  /\ branch = "client"
  /\ ValidPair(file)
  /\ bleState = "poweredOn"
  /\ log[0] = << Ev("stopAdvertising", "issue"), Ev("stop_bluetooth", "issue"),
                 Ev("stop_bluetooth", "ok"), Ev("launch_kiosk", "issue"),
                 Ev("launch_kiosk", "ok") >>

C10_ResetHonored ==
  [][ (rev = "ble" /\ postReset)
        => ( /\ file' = Absent
             /\ ~wifiCredentialsExist(rev, file')
             /\ mode' = "Unprovisioned"
             /\ ~clientActive'
             /\ lastResp' = "reset_success" ) ]_vars

\* C11: in server.js, after a reset request that came in mode Transitioning
\* (the sequence of a submission is scheduled or running), that sequence
\* neither brings the mode to Provisioned nor launches the display.
C11_ResetInterrupts ==
  [][ ( /\ rev = "ble"
        /\ lastResp \in {"404", "reset_success"}
        /\ ValidPair(file)
        /\ mode = "Transitioning" )
      => ( /\ mode' # "Provisioned"
           /\ kiosk' => kiosk ) ]_vars

\* C12: once a command of a submission's sequence has failed, that sequence
\* issues no further command, and the mode of a process that has taken one
\* submission stays Transitioning.
C12_FailureAborts ==
  \A n \in Requests :
    /\ \A i \in DOMAIN log[n] : log[n][i].ev = "fail" => i = Len(log[n])
    /\ ( /\ nreq = 1
         /\ n = 1
         /\ \E i \in DOMAIN log[n] : log[n][i].ev = "fail" )
       => mode = "Transitioning"

\* C13: a submission whose writeFileSync throws advances nothing: the mode
\* stays, the intake that took it stays armed (the server listens, the
\* peripheral advertises and serves as before), no timer is set, no script
\* is started and no action is issued.
C13_SaveFailureHolds ==
  [][ \A b \in BlePayloads : \A io \in IoOutcomes \ {"ok"} :
        ( \/ Truthy(b.ssid) /\ Truthy(b.password) /\ postSetupWifi(b, io)
          \/ b.kind # "nonjson" /\ onWriteRequest(b, io) )
        => ( /\ mode' = mode
             /\ booted'
             /\ advertising' = advertising
             /\ servicesSet' = servicesSet
             /\ connected' = connected
             /\ timers' = timers
             /\ procs' = procs
             /\ log' = log ) ]_vars

\* server.js answered 500 to its first request: the write failed after the
\* file was truncated, and nothing is scheduled
C13_Witness ==
  /\ rev = "ble"
  /\ nreq = 1
  /\ lastResp = "500"
  /\ file = NonJson
  /\ mode = "Unprovisioned"
  /\ timers = {}
  /\ procs = {}

\* C14: stop_ap.sh never reads wifi-config.json while a save is under way
\* with the file truncated and the new record not yet written: what it reads
\* is the whole previous record or the whole new one.
C14_AtomicSave ==
  [][ (\E p \in procs, ok \in BOOLEAN : p.step = 2 /\ stop_ap(p, ok))
        => writing = Idle ]_vars

\* C15: in server.js, after a submission that was answered with success the
\* stored record has an ssid and a password that are non-empty after
\* trimming, and wifiCredentialsExist() is true.
C15_StoredRecordValid ==
  ( /\ rev = "ble"
    /\ lastResp \in {"200", "RESULT_SUCCESS"} )
  => (ValidPair(file) /\ wifiCredentialsExist(rev, file))

\* C16: in server.js, whenever both intakes take requests, the BLE write
\* handler accepts a payload (success result) exactly when the POST handler
\* accepts the same payload (answer 200).
C16_SameValidation ==
  \A b \in Samples :
    (rev = "ble" /\ HttpArmed /\ BleArmed /\ nreq < MaxRequests)
    => ( ENABLED (onWriteRequest(b, "ok") /\ lastResp' = "RESULT_SUCCESS")
         <=> ENABLED (postSetupWifi(b, "ok") /\ lastResp' = "200") )

\* the payload is a JSON object that has both an ssid and a password
TwoFields(p) == p.kind = "obj" /\ p.ssid # Undef /\ p.password # Undef

\* C17: in server.js, a BLE write of a payload that is not an object with
\* both fields is answered with the error result, starts no sequence and
\* leaves the record and the advertisement as they were.
C17_NotTwoFieldsRejected ==
  [][ \A p \in BlePayloads :
        (rev = "ble" /\ ~TwoFields(p) /\ onWriteRequest(p, "ok"))
        => ( /\ lastResp' = "RESULT_UNLIKELY_ERROR"
             /\ file' = file
             /\ advertising' = advertising
             /\ procs' = procs
             /\ log' = log
             /\ mode' = mode ) ]_vars

\* C18: a BLE write of a payload that is not JSON is answered with the
\* error result and changes nothing: record, mode, advertisement, timers,
\* scripts and issued actions stay as they were.
C18_NonJsonWrite ==
  [][ \A io \in IoOutcomes :
        onWriteRequest(NonJson, io)
        => ( /\ lastResp' = "RESULT_UNLIKELY_ERROR"
             /\ file' = file
             /\ mode' = mode
             /\ advertising' = advertising
             /\ servicesSet' = servicesSet
             /\ timers' = timers
             /\ procs' = procs
             /\ log' = log ) ]_vars

\* the first write server.js got was answered with the error result while
\* the peripheral advertises; no record, nothing started
C18_Witness ==
  /\ rev = "ble"
  /\ nreq = 1
  /\ lastResp = "RESULT_UNLIKELY_ERROR"
  /\ file = Absent
  /\ advertising
  /\ connected
  /\ mode = "Unprovisioned"
  /\ procs = {}
  /\ log[1] = <<>>

\* a field the body lacks, or the empty string
MissingOrEmpty(v) == v = Undef \/ v = Str(<<>>)

\* C19: a POST /setup/wifi whose body lacks ssid or password, or has the
\* empty string for one, is answered 400 and changes nothing: no record is
\* written, the mode stays, no timer is set and no script is started.
C19_BadPostRejected ==
  [][ \A b \in HttpBodies : \A io \in IoOutcomes :
        ( /\ MissingOrEmpty(b.ssid) \/ MissingOrEmpty(b.password)
          /\ postSetupWifi(b, io) )
        => ( /\ lastResp' = "400"
             /\ file' = file
             /\ mode' = mode
             /\ timers' = timers
             /\ procs' = procs
             /\ log' = log ) ]_vars

\* server.js answered 400 to its first request: no record, nothing scheduled
C19_Witness ==
  /\ rev = "ble"
  /\ nreq = 1
  /\ lastResp = "400"
  /\ file = Absent
  /\ mode = "Unprovisioned"
  /\ timers = {}
  /\ procs = {}

\* C20: in part_005 and in server.js, wifiCredentialsExist() is true exactly
\* when the file holds a record whose ssid and password are strings that are
\* non-empty after trimming; it is false for a missing file and for a
\* malformed record.
C20_ExistsValid ==
  rev \in {"ap", "ble"} => (wifiCredentialsExist(rev, file) <=> ValidPair(file))

\* C21: the delete of the first program's POST /reset is idempotent: it
\* leaves no file and is acknowledged with success, also when there was no
\* file; and a second delete right after a delete changes nothing but the
\* count of requests.
C21_DeleteIdempotent ==
  /\ [][ (rev = "first" /\ postReset)
           => ( /\ file' = Absent
                /\ lastResp' = "reset_success"
                /\ mode' = "Unprovisioned" ) ]_vars
  /\ [][ ( /\ rev = "first"
           /\ file = Absent
           /\ lastResp = "reset_success"
           /\ mode = "Unprovisioned"
           /\ postReset )
         => ( /\ file' = file
              /\ lastResp' = lastResp
              /\ mode' = mode ) ]_vars

\* the first program has answered two requests, the last one a reset, and
\* holds no file
C21_Witness ==
  /\ rev = "first"
  /\ nreq = 2
  /\ lastResp = "reset_success"
  /\ file = Absent
  /\ mode = "Unprovisioned"

\* C22: in server.js, every script that exec has started is off the process
\* table after some time: it has ended, or a timeout has ended it and the
\* error was reported to the callback.
C22_ActionsBounded ==
  \A n \in Seqs :
    (rev = "ble" /\ \E p \in procs : p.sub = n)
      ~> (\A p \in procs : p.sub # n)

\* C23: in server.js, whenever the mode is Provisioned the client network
\* is active and the display is launched.
C23_ProvisionedMeans ==
  (rev = "ble" /\ mode = "Provisioned") => (clientActive /\ kiosk)

\* C24: in server.js, a boot that announces mode Unprovisioned leaves no
\* record in the store, also when it found a record that
\* wifiCredentialsExist() rejects.
C24_UnprovisionedNoRecord ==
  [][ (rev = "ble" /\ Boot /\ mode' = "Unprovisioned") => file' = Absent ]_vars

C26_ResponseFirst ==
  /\ [][ \A b \in HttpBodies :
           (postSetupWifi(b, "ok") /\ lastResp' = "200")
           => ( /\ log' = log
                /\ procs' = procs
                /\ apActive' = apActive
                /\ clientActive' = clientActive
                /\ advertising' = advertising
                /\ kiosk' = kiosk ) ]_vars
  /\ [](\A n \in timers : n <= nreq /\ log[n] = <<>>)
  /\ [][ \A n \in Requests :
           (log'[n] # log[n] /\ log[n] = <<>> /\ ~BleWrite)
           => (n <= nreq /\ n \in timers /\ timerCallback(n)) ]_vars

\* server.js answered 200 to its first request, and the timer callback has
\* then issued the first action of the sequence
C26_Witness ==
  /\ rev = "ble"
  /\ nreq = 1
  /\ lastResp = "200"
  /\ timers = {}
  /\ log[1] = <<Ev("stop_bluetooth", "issue")>>

\* C27: in server.js, once a submission is accepted and the advertisement
\* is stopped, no step of the same process starts it again while the mode
\* is Transitioning or Provisioned.
C27_NoRebroadcast ==
  [][ ( /\ rev = "ble"
        /\ lastResp = "RESULT_SUCCESS"
        /\ ValidPair(file)
        /\ mode \in {"Transitioning", "Provisioned"}
        /\ ~advertising
        /\ ~Restart )
      => ~advertising' ]_vars

\* C28: when the stop_ap.sh of a submission finds no file, it reports
\* failure and launch_kiosk.sh is not started; and such a script does not
\* take the access point down while there is no client network.
C28_AbsentRecordAtApply ==
  [][ \A p \in procs : \A ok \in BOOLEAN :
        (p.sub \in Requests /\ file = Absent /\ stop_ap(p, ok))
        => /\ p.step = 2
                => ( /\ log'[p.sub] = log[p.sub] \o <<Ev("apply_wpa", "fail")>>
                     /\ \A q \in procs' :
                          ~(q.sub = p.sub /\ q.script = "launch_kiosk") )
           /\ (p.step = 1 /\ apActive /\ ~clientActive) => apActive' ]_vars

====
